---------------------------- MODULE Spec2Model ----------------------------
(***************************************************************************)
(* Model of the ripple/water background of poems-guest-book:               *)
(*   - WaterSimulation (src/components/RippleBackground/WaterSimulation.js)*)
(*     the ping-pong height-field solver and its three shader passes;      *)
(*   - RippleBackground (src/components/RippleBackground/                  *)
(*     RippleBackground.jsx) the effect's lifecycle: setup, camera,        *)
(*     frame loop, listeners and cleanup.                                  *)
(*                                                                         *)
(* Several specifications share the module.  SpecSim drives one solver     *)
(* with arbitrary sequences of addDrop / stepSimulation / updateNormals    *)
(* and keeps the texel values.  Spec drives the React effect through       *)
(* mount, asynchronous camera start, frames, user gestures and cleanup.    *)
(* SpecFrame runs whole frames of render() over the solver, fed by the     *)
(* stroke events of WritingCanvas through App's handleStrokeUpdate.        *)
(* SpecSetup is Spec started on any WebGL implementation (float textures   *)
(* supported or not, shaders compiling and linking or not) and with        *)
(* either value of the useCamera prop.                                     *)
(*                                                                         *)
(* Numbers.  Shader values are exact rationals <<n, d>> (d > 0, lowest     *)
(* terms).  The two transcendental steps of the drop shader are modelled   *)
(* as follows: length(..)/radius is carried as its square q, and           *)
(* cos(PI * s) is a table of its exact rational points (s = 0, 1/3, 1/2,   *)
(* 2/3, 1) interpolated linearly in q = s*s in between.  The normal        *)
(* shader's normalize() is exact: a component v/|vec| is stored as the     *)
(* pair <<sign(v), v*v / |vec|^2>>.                                        *)
(***************************************************************************)
EXTENDS Integers, Sequences, FiniteSets, TLC

VARIABLES
    \* ---- WaterSimulation (SpecSim) ----
    textureA,        \* this.textureA: the current buffer (a texture handle)
    textureB,        \* this.textureB: the write target of the next pass
    pixels,          \* texture handle -> texel -> RGBA stored on the GPU
    boundTexture,    \* texture bound to TEXTURE0 by the last pass (sampler)
    attachment,      \* COLOR_ATTACHMENT0 of the framebuffer in the last pass
    lastCall,        \* the last solver call and its arguments
    drops,           \* number of addDrop calls so far
    settle,          \* stepSimulation calls since the last addDrop
    zeroRun,         \* length of the current run of zero-strength addDrop calls
    zeroBase         \* the current buffer's texels when that run began

VARIABLES
    \* ---- RippleBackground effect (Spec) ----
    enabled,         \* the enabled prop
    sessions,        \* number of times the effect body ran with enabled
    status,          \* per session: unused / running / disposed / noContext
    gpu,             \* per session: GPU objects created and not deleted
    videoInDom,      \* per session: its <video> is a child of document.body
    videoRef,        \* videoRef.current (session whose video it holds, 0 = null)
    simulationRef,   \* simulationRef.current (0 = null)
    stream,          \* per session: the closure's stream: null / live / stopped
    camera,          \* per session: where startCamera() stands
    videoReady,      \* per session: the closure's videoReady
    docListeners,    \* <<session, type>>: forcePlay registered on document
    forcePlays,      \* per session: video.play() promises started by forcePlay
    resizeListeners, \* sessions whose resize is registered on window
    frameRequests,   \* <<session, id>>: pending requestAnimationFrame callbacks
    nextFrameId,     \* the id the next requestAnimationFrame returns
    raf,             \* per session: the closure's raf (0 = undefined)
    simTex,          \* per session: <<waterSim.textureA, waterSim.textureB>>
    lastFrame,       \* what the most recent render() did, and for which session
    viewport,        \* window.innerWidth, innerHeight, devicePixelRatio
    canvasSize,      \* per session: <<canvas.width, canvas.height>> of its
                     \* <canvas> (<<0, 0>>: not sized yet, or unmounted)
    gpuCaps,         \* what the browser's WebGL supports: float textures,
                     \* and how shader compilation and linking end
    logged,          \* per session: diagnostics its setup passed to console.error
    simSize,         \* per session: <<waterSim.width, waterSim.height>>
    requested,       \* per session: number of getUserMedia calls made
    useCamera        \* the useCamera prop the host passes; the component's
                     \* parameters ({ enabled, sharedPointerRef }) drop it

VARIABLES
    \* ---- one frame of render() over the solver (SpecFrame) ----
    pointer,         \* sharedPointerRef.current: x, y, down
    lastEvent,       \* the stroke event behind the last onStrokeUpdate call
    frames,          \* number of render() calls so far
    rendered         \* the solver calls of the last render() and what it drew

VARIABLES
    \* ---- getSnapshot() of RippleBackground (SpecSnapshot) ----
    snapshot         \* the last getSnapshot() call: what it saw and returned

VARIABLES
    \* ---- Edge Function get-poems (SpecGetPoems) ----
    limitQuery,      \* url.searchParams.get('limit') of the last request
    limit            \* the limit its handler computed and gave to .limit()

VARIABLES
    \* ---- window resize over both canvases (SpecResize) ----
    now,             \* the time in milliseconds
    resizeTimer,     \* debounce's timeout: the time it is due, -1 when none
    burst,           \* the resize events since the last quiet quarter second
    renderRuns,      \* runs of RippleBackground's resize() since the burst began
    drawRuns         \* runs of WritingCanvas's resizeCanvas() since it began

VARIABLES
    \* ---- App: the poem on display and its database id (SpecApp) ----
    appState,        \* appState: "writing", "processing", "poem", "error"
    poem,            \* the poem on display (0: null); a poem is named by
                     \* the id its row has or will get in the database
    poemId,          \* poemId (0: null)
    recentPoems,     \* the poems of recentPoems
    generating,      \* the submission whose generatePoemMultimodal is
                     \* pending (0: none)
    pendingSaves,    \* the poems whose background savePoem is pending
    submissions      \* number of handleCanvasSubmit calls so far

VARIABLES
    \* ---- PoemDisplay: the word-by-word reveal (SpecReveal) ----
    shownPoem,       \* the poem prop of the mounted PoemDisplay (0: not
                     \* mounted yet)
    visibleWords,    \* visibleWords
    isAllComplete,   \* isAllComplete
    startTextAnimation,  \* startTextAnimation
    timers,          \* the pending setTimeout callbacks
    poemChanges      \* number of values the poem prop has had

VARIABLES
    \* ---- services/sync.js: the cached realtime channel (SpecSync) ----
    channel,         \* the module's let channel (0: null); channels are
                     \* numbered in the order supabase.channel() made them
    channelsCreated, \* number of supabase.channel() calls so far
    everFailed,      \* per channel: it has reported CLOSED or CHANNEL_ERROR
    closedChannels,  \* the channels that reported CLOSED
    lastReturned,    \* what the last getSyncChannel() returned
    lastStatus,      \* the last status callback: its channel and status
    reports          \* number of status callbacks so far

VARIABLES
    \* ---- WritingCanvas: the events of a stroke (SpecStroke) ----
    isProjection,    \* the isProjection prop
    isDrawing,       \* isDrawing
    recentTouch,     \* lastTouchRef.current && Date.now() - it < 100
    broadcasts,      \* the events sent on the sync channel, in order
    strokeEvents     \* number of pointer and touch events handled so far

simvars == <<textureA, textureB, pixels, boundTexture, attachment, lastCall,
             drops, settle, zeroRun, zeroBase>>

lifevars == <<enabled, sessions, status, gpu, videoInDom, videoRef,
              simulationRef, stream, camera, videoReady, docListeners,
              forcePlays, resizeListeners, frameRequests, nextFrameId, raf,
              simTex, lastFrame, viewport, canvasSize, gpuCaps, logged,
              simSize, requested, useCamera>>

setupvars == <<gpuCaps, logged, simSize, requested, useCamera>>

framevars == <<pointer, lastEvent, frames, rendered>>

snapvars == <<snapshot>>

apivars == <<limitQuery, limit>>

resizevars == <<now, resizeTimer, burst, renderRuns, drawRuns>>

poemvars == <<appState, poem, poemId, recentPoems, generating, pendingSaves,
              submissions>>

revealvars == <<shownPoem, visibleWords, isAllComplete, startTextAnimation,
                timers, poemChanges>>

syncvars == <<channel, channelsCreated, everFailed, closedChannels,
              lastReturned, lastStatus, reports>>

strokevars == <<isProjection, isDrawing, recentTouch, broadcasts, strokeEvents>>

\* for the actions of one component: the variables of the others
snapOthers == <<apivars, resizevars, poemvars, revealvars, syncvars, strokevars>>
apiOthers == <<snapvars, resizevars, poemvars, revealvars, syncvars, strokevars>>
resizeOthers == <<snapvars, apivars, poemvars, revealvars, syncvars, strokevars>>
poemOthers == <<snapvars, apivars, resizevars, revealvars, syncvars, strokevars>>
revealOthers == <<snapvars, apivars, resizevars, poemvars, syncvars, strokevars>>
syncOthers == <<snapvars, apivars, resizevars, poemvars, revealvars, strokevars>>

strokeOthers == <<snapvars, apivars, resizevars, poemvars, revealvars, syncvars>>

appvars == <<snapvars, apivars, resizevars, poemvars, revealvars, syncvars, strokevars>>

vars == <<simvars, lifevars, framevars, appvars>>

(***************************************************************************)
(* Bounds of the model                                                     *)
(***************************************************************************)
\* grid of the solver under SpecSim (the application uses 256 x 256)
Width == 2
Height == 2
\* number of addDrop calls in one behaviour of SpecSim
MaxDrops == 3
\* the count of stepSimulation calls since the last drop saturates here
MaxSettle == 4
\* number of times the effect may run in one behaviour of Spec
MaxSessions == 2
\* number of requestAnimationFrame ids handed out in one behaviour of Spec,
\* and of frames rendered in one behaviour of SpecFrame
MaxFrames == 3
\* forcePlay() calls whose play() promise may be pending at once
MaxRetries == 1
\* a pass is only taken while the common denominator of the texels it
\* reads stays below this cap (keeps the exact arithmetic in range)
MaxDen == 2000
\* length of the limit query parameter of a get-poems request
MaxParamLen == 3
\* the time, in milliseconds, up to which SpecResize follows the window
MaxTime == 1000
\* number of resize events in one burst under SpecResize
MaxBurst == 3
\* number of drawings submitted in one behaviour of SpecApp
MaxSubmissions == 3
\* number of values the poem prop takes in one behaviour of SpecReveal
MaxPoemChanges == 3
\* number of channels created in one behaviour of SpecSync
MaxChannels == 3
\* number of status callbacks in one behaviour of SpecSync
MaxReports == 4
\* number of pointer and touch events in one behaviour of SpecStroke
MaxStrokeEvents == 5

(***************************************************************************)
(* Exact rational arithmetic for the GLSL float expressions                *)
(***************************************************************************)
Abs(x) == IF x < 0 THEN -x ELSE x

RECURSIVE GCD(_, _)
GCD(a, b) == IF b = 0 THEN a ELSE GCD(b, a % b)

LCM(a, b) == (a \div GCD(a, b)) * b

Rat(n, d) == LET g == GCD(Abs(n), d) IN <<n \div g, d \div g>>

Zero == <<0, 1>>
One == <<1, 1>>
Half == <<1, 2>>

RAdd(p, q) == LET l == LCM(p[2], q[2])
              IN  Rat(p[1] * (l \div p[2]) + q[1] * (l \div q[2]), l)
RNeg(p) == <<-p[1], p[2]>>
RSub(p, q) == RAdd(p, RNeg(q))
RMul(p, q) == LET g1 == GCD(Abs(p[1]), q[2])
                  g2 == GCD(Abs(q[1]), p[2])
              IN  IF p[1] = 0 \/ q[1] = 0 THEN Zero
                  ELSE Rat((p[1] \div g1) * (q[1] \div g2),
                           (p[2] \div g2) * (q[2] \div g1))
RDiv(p, q) == IF q[1] > 0 THEN RMul(p, <<q[2], q[1]>>)
              ELSE RMul(p, <<-q[2], -q[1]>>)
RLeq(p, q) == p[1] * q[2] <= q[1] * p[2]
RLess(p, q) == p[1] * q[2] < q[1] * p[2]
RAbs(p) == <<Abs(p[1]), p[2]>>
Sign(p) == IF p[1] > 0 THEN 1 ELSE IF p[1] < 0 THEN -1 ELSE 0


RECURSIVE SetLCM(_)
SetLCM(S) == IF S = {} THEN 1
             ELSE LET d == CHOOSE e \in S : TRUE
                  IN  LCM(d, SetLCM(S \ {d}))

RECURSIVE RSum(_)
RSum(seq) == IF seq = <<>> THEN Zero
             ELSE RAdd(Head(seq), RSum(Tail(seq)))

(***************************************************************************)
(* WaterSimulation: textures and texel addressing                          *)
(***************************************************************************)
\* the fragments of a pass: one per texel of the width x height viewport
Texels == (0 .. Width - 1) \X (0 .. Height - 1)

\* varying coord = aPos * 0.5 + 0.5 at the centre of fragment <<i, j>>
Coord(t) == <<Rat(2 * t[1] + 1, 2 * Width), Rat(2 * t[2] + 1, 2 * Height)>>

\* uniform delta = (1 / width, 1 / height)
Delta == <<Rat(1, Width), Rat(1, Height)>>

\* texImage2D(..., null): a new texture is all zero
ZeroTexel == [r |-> Zero, g |-> Zero, b |-> <<0, Zero>>, a |-> <<0, Zero>>]
BlankTexture == [t \in Texels |-> ZeroTexel]

\* TEXTURE_WRAP_S / TEXTURE_WRAP_T = CLAMP_TO_EDGE
ClampToEdge(i, n) == IF i < 0 THEN 0 ELSE IF i > n - 1 THEN n - 1 ELSE i

\* texture2D(texture, coord + (di * delta.x, dj * delta.y))
Texture2D(texture, t, di, dj) ==
    texture[<<ClampToEdge(t[1] + di, Width), ClampToEdge(t[2] + dj, Height)>>]

\* the common denominator of the height and momentum channels of a texture
TextureDen(texture) ==
    SetLCM({texture[t].r[2] : t \in Texels} \cup {texture[t].g[2] : t \in Texels})

(***************************************************************************)
(* Drop shader                                                             *)
(***************************************************************************)
\* cos(PI * s) at its rational points, indexed by q = s * s
CosNodes == << <<Zero, One>>, <<Rat(1, 9), Half>>, <<Rat(1, 4), Zero>>,
               <<Rat(4, 9), RNeg(Half)>>, <<One, RNeg(One)>>,
               <<Rat(16, 9), RNeg(Half)>>, <<Rat(9, 4), Zero>>,
               <<Rat(25, 9), Half>>, <<Rat(4, 1), One>> >>

\* cos(PI * sqrt(q)) for 0 <= q <= 4: exact at the nodes, linear in q between
CosPiSqrt(q) ==
    LET k  == CHOOSE i \in 1 .. Len(CosNodes) - 1 :
                  RLeq(CosNodes[i][1], q) /\ RLeq(q, CosNodes[i + 1][1])
        lo == CosNodes[k]
        hi == CosNodes[k + 1]
    IN  RAdd(lo[2], RMul(RSub(hi[2], lo[2]),
                         RDiv(RSub(q, lo[1]), RSub(hi[1], lo[1]))))

\* the drop shader without its max(0.0, ...): the bump does not end at radius
CosPiDropNoClamp(q) == IF RLeq(Rat(4, 1), q) THEN One ELSE RNeg(CosPiSqrt(q))

\* cos(drop * PI) where drop = max(0.0, 1.0 - length / radius) and q is
\* (length / radius)^2:  q >= 1 gives drop = 0, else cos(PI - PI * sqrt(q))
CosPiDrop(q) == IF RLeq(One, q) THEN One ELSE RNeg(CosPiSqrt(q))

\* |center * 0.5 + 0.5 - coord|^2
Dist2(center, t) ==
    LET dx == RSub(RAdd(RMul(center[1], Half), Half), Coord(t)[1])
        dy == RSub(RAdd(RMul(center[2], Half), Half), Coord(t)[2])
    IN  RAdd(RMul(dx, dx), RMul(dy, dy))

\* a drop shader that stores the bump instead of adding it
DropShaderOverwrite(texture, t, center, radius, strength) ==
    LET q    == RDiv(Dist2(center, t), RMul(radius, radius))
        drop == RSub(Half, RMul(CosPiDrop(q), Half))
    IN  [texture[t] EXCEPT !.r = RMul(drop, strength)]

\* main() of the drop shader for fragment t
DropShader(texture, t, center, radius, strength) ==
    LET info == texture[t]
        q    == RDiv(Dist2(center, t), RMul(radius, radius))
        drop == RSub(Half, RMul(CosPiDrop(q), Half))
    IN  [info EXCEPT !.r = RAdd(@, RMul(drop, strength))]

(***************************************************************************)
(* Update shader                                                           *)
(***************************************************************************)
Damping == Rat(995, 1000)
Gain == Rat(2, 1)

\* an update shader that moves the height by the momentum of the last step
UpdateShaderStaleMomentum(texture, t) ==
    LET info    == texture[t]
        average == RMul(RSum(<<Texture2D(texture, t, -1, 0).r,
                               Texture2D(texture, t, 0, -1).r,
                               Texture2D(texture, t, 1, 0).r,
                               Texture2D(texture, t, 0, 1).r>>), Rat(1, 4))
        g1      == RAdd(info.g, RMul(RSub(average, info.r), Gain))
        g2      == RMul(g1, Damping)
    IN  [info EXCEPT !.g = g2, !.r = RAdd(info.r, info.g)]

\* main() of the update shader for fragment t
UpdateShader(texture, t) ==
    LET info    == texture[t]
        average == RMul(RSum(<<Texture2D(texture, t, -1, 0).r,
                               Texture2D(texture, t, 0, -1).r,
                               Texture2D(texture, t, 1, 0).r,
                               Texture2D(texture, t, 0, 1).r>>), Rat(1, 4))
        g1      == RAdd(info.g, RMul(RSub(average, info.r), Gain))
        g2      == RMul(g1, Damping)
    IN  [info EXCEPT !.g = g2, !.r = RAdd(info.r, g2)]

(***************************************************************************)
(* Normal shader                                                           *)
(***************************************************************************)
\* component v of normalize(vec) as <<sign(v), v * v / dot(vec, vec)>>
NormalizedComponent(v, len2) == <<Sign(v), RDiv(RMul(v, v), len2)>>

\* a normal shader that writes the normal into an empty texel
NormalShaderOnly(texture, t) ==
    LET hL   == Texture2D(texture, t, -1, 0).r
        hR   == Texture2D(texture, t, 1, 0).r
        hU   == Texture2D(texture, t, 0, -1).r
        hD   == Texture2D(texture, t, 0, 1).r
        vx   == RSub(hL, hR)
        vy   == RMul(Rat(2, 1), Delta[1])
        vz   == RSub(hU, hD)
        len2 == RSum(<<RMul(vx, vx), RMul(vy, vy), RMul(vz, vz)>>)
    IN  [ZeroTexel EXCEPT !.b = NormalizedComponent(vx, len2),
                          !.a = NormalizedComponent(vz, len2)]

\* main() of the normal shader for fragment t
NormalShader(texture, t) ==
    LET info == texture[t]
        hL   == Texture2D(texture, t, -1, 0).r
        hR   == Texture2D(texture, t, 1, 0).r
        hU   == Texture2D(texture, t, 0, -1).r
        hD   == Texture2D(texture, t, 0, 1).r
        vx   == RSub(hL, hR)
        vy   == RMul(Rat(2, 1), Delta[1])
        vz   == RSub(hU, hD)
        len2 == RSum(<<RMul(vx, vx), RMul(vy, vy), RMul(vz, vz)>>)
    IN  [info EXCEPT !.b = NormalizedComponent(vx, len2),
                     !.a = NormalizedComponent(vz, len2)]


(***************************************************************************)
(* WaterSimulation: constructor, swap and the three passes                 *)
(***************************************************************************)
\* the two objects gl.createTexture() returns in the constructor
Handles == {"tex1", "tex2"}

\* arguments addDrop is called with
\* <<center, radius>>: on the centre of texel <<0, 0>> of the 2 x 2 grid
\* with the neighbours exactly at radius, the same with a wider bump, and
\* on the centre of the grid
DropArgs == {<<<<RNeg(Half), RNeg(Half)>>, Half>>,
             <<<<RNeg(Half), RNeg(Half)>>, One>>,
             <<<<Zero, Zero>>, Half>>}
Strengths == {Zero, One, RNeg(One)}

NoCall == [op |-> "none", center |-> <<Zero, Zero>>, radius |-> Zero,
           strength |-> Zero]

\* a swap that forgets the exchange
SwapKeep(a, b) == <<a, b>>

\* swap(): <<textureA, textureB>> after the call
Swap(a, b) == <<b, a>>

\* a pass that renders into the texture it samples
RenderTargetCurrent(a, b) == a

\* renderToTexture(this.textureB, ...): the texture attached as render target
RenderTarget(a, b) == b

\* gl.bindTexture(gl.TEXTURE_2D, this.textureA): the texture the pass samples
Sampled(a, b) == a

\* renderToTexture(target, action): the action binds the source texture and
\* its drawArrays writes the fragments it draws into the attached target
RenderToTexture(target, source, drawn) ==
    /\ attachment' = target
    /\ boundTexture' = source
    /\ pixels' = [pixels EXCEPT ![target] = drawn]

SimInit ==
    /\ textureA = "tex1"
    /\ textureB = "tex2"
    /\ pixels = [h \in Handles |-> BlankTexture]
    /\ boundTexture = "none"
    /\ attachment = "none"
    /\ lastCall = NoCall
    /\ drops = 0
    /\ settle = 0
    /\ zeroRun = 0
    /\ zeroBase = BlankTexture

AddDrop(center, radius, strength) ==
    /\ drops < MaxDrops
    /\ LET source == Sampled(textureA, textureB)
       IN  RenderToTexture(RenderTarget(textureA, textureB), source,
               [t \in Texels |->
                   DropShader(pixels[source], t, center, radius, strength)])
    /\ textureA' = Swap(textureA, textureB)[1]
    /\ textureB' = Swap(textureA, textureB)[2]
    /\ lastCall' = [op |-> "addDrop", center |-> center, radius |-> radius,
                    strength |-> strength]
    /\ drops' = drops + 1
    /\ settle' = 0
    /\ zeroRun' = IF strength = Zero THEN zeroRun + 1 ELSE 0
    /\ zeroBase' = IF strength = Zero /\ zeroRun > 0 THEN zeroBase
                   ELSE pixels[textureA]
    /\ UNCHANGED <<lifevars, framevars, appvars>>

StepSimulation ==
    /\ TextureDen(pixels[textureA]) <= MaxDen
    /\ LET source == Sampled(textureA, textureB)
       IN  RenderToTexture(RenderTarget(textureA, textureB), source,
               [t \in Texels |-> UpdateShader(pixels[source], t)])
    /\ textureA' = Swap(textureA, textureB)[1]
    /\ textureB' = Swap(textureA, textureB)[2]
    /\ lastCall' = [NoCall EXCEPT !.op = "stepSimulation"]
    /\ settle' = IF settle < MaxSettle THEN settle + 1 ELSE settle
    /\ zeroRun' = 0
    /\ UNCHANGED <<drops, zeroBase>>
    /\ UNCHANGED <<lifevars, framevars, appvars>>

UpdateNormals ==
    /\ TextureDen(pixels[textureA]) <= MaxDen
    /\ LET source == Sampled(textureA, textureB)
       IN  RenderToTexture(RenderTarget(textureA, textureB), source,
               [t \in Texels |-> NormalShader(pixels[source], t)])
    /\ textureA' = Swap(textureA, textureB)[1]
    /\ textureB' = Swap(textureA, textureB)[2]
    /\ lastCall' = [NoCall EXCEPT !.op = "updateNormals"]
    /\ zeroRun' = 0
    /\ UNCHANGED <<drops, settle, zeroBase>>
    /\ UNCHANGED <<lifevars, framevars, appvars>>

AddDropCall == \E d \in DropArgs, s \in Strengths : AddDrop(d[1], d[2], s)


(***************************************************************************)
(* Claims about the solver (checked under SpecSim)                         *)
(***************************************************************************)
\* the four edge-clamped neighbours of texel t
Neighbours(t) ==
    << <<IF t[1] = 0 THEN 0 ELSE t[1] - 1, t[2]>>,
       <<IF t[1] = Width - 1 THEN t[1] ELSE t[1] + 1, t[2]>>,
       <<t[1], IF t[2] = 0 THEN 0 ELSE t[2] - 1>>,
       <<t[1], IF t[2] = Height - 1 THEN t[2] ELSE t[2] + 1>> >>

RECURSIVE SumAbs(_, _)
SumAbs(texture, S) ==
    IF S = {} THEN Zero
    ELSE LET t == CHOOSE e \in S : TRUE
         IN  RAdd(RAbs(texture[t].r), SumAbs(texture, S \ {t}))

\* sum over all texels of |height| in the current buffer
SumAbsHeight == SumAbs(pixels[textureA], Texels)

Epsilon == Rat(1, 100)

\* C1: every call of addDrop, stepSimulation or updateNormals makes the
\* former write target (textureB) the current buffer (textureA) and the
\* former current buffer the write target, so the current buffer differs
\* from the one before the call; at every moment the two fields name the
\* two different textures.
C1_StrictSwap ==
    /\ textureA # textureB
    /\ [][/\ textureA' = textureB
          /\ textureB' = textureA
          /\ textureA' # textureA
          /\ {textureA', textureB'} = Handles]_simvars

C1_Witness ==
    /\ lastCall.op = "updateNormals"
    /\ drops > 0
    /\ settle > 0
    /\ textureA = "tex2"

\* C2: in every pass the texture sampled is the current buffer, the texture
\* attached as render target is the other one, the two differ, and the pass
\* leaves the texels of the sampled texture as they were.
C2_ReadWriteDisjoint ==
    [][/\ boundTexture' = textureA
       /\ attachment' = textureB
       /\ boundTexture' # attachment'
       /\ pixels'[boundTexture'] = pixels[boundTexture']]_simvars

C2_Witness ==
    /\ lastCall.op = "stepSimulation"
    /\ boundTexture = "tex2"
    /\ attachment = "tex1"
    /\ pixels["tex1"] # pixels["tex2"]

\* C7: once the drops have stopped and only stepSimulation runs, the sum
\* over all texels of |height| falls below epsilon after a bounded number
\* of steps (here: once MaxSettle steps have run since the last drop).
C7_DecaysToRest == settle >= MaxSettle => RLess(SumAbsHeight, Epsilon)

RECURSIVE SumHeight(_, _)
SumHeight(texture, S) ==
    IF S = {} THEN Zero
    ELSE LET t == CHOOSE e \in S : TRUE
         IN  RAdd(texture[t].r, SumHeight(texture, S \ {t}))

\* C7, what the code does instead: stepSimulation keeps the sum of the
\* heights (the clamped stencil sums to zero and the momenta, which start
\* at zero, keep summing to zero), so the sum of |height| never falls
\* below the absolute value of the net volume the drops added.
C7_HeightSumKept ==
    lastCall.op = "stepSimulation" =>
        SumHeight(pixels[textureA], Texels) = SumHeight(pixels[textureB], Texels)

\* a field that is not at rest and that stepSimulation maps to itself: no
\* number of further steps brings the sum of |height| below epsilon
C7_Witness ==
    /\ settle >= MaxSettle
    /\ lastCall.op = "stepSimulation"
    /\ pixels[textureA] = pixels[textureB]
    /\ RLeq(Epsilon, SumAbsHeight)

\* C8: after stepSimulation every texel of the new current buffer holds
\*   momentum' = (momentum + (average of the 4 edge-clamped neighbour
\*                heights - height) * 2) * 0.995,   height' = height + momentum'
\* computed from the buffer that was current before the call (now textureB).
\* With s the sum of the four neighbour heights the first equation is
\*   400 * momentum' = 199 * (2 * momentum + s - 4 * height).
C8_StepFormula ==
    lastCall.op = "stepSimulation" =>
        \A t \in Texels :
            LET old == pixels[textureB]
                new == pixels[textureA][t]
                s   == RSum([k \in 1 .. 4 |-> old[Neighbours(t)[k]].r])
            IN  /\ RMul(Rat(400, 1), new.g) =
                       RMul(Rat(199, 1),
                            RAdd(RMul(Rat(2, 1), old[t].g),
                                 RSub(s, RMul(Rat(4, 1), old[t].r))))
                /\ new.r = RAdd(old[t].r, new.g)

C8_Witness ==
    /\ lastCall.op = "stepSimulation"
    /\ settle >= 2
    /\ \E t \in Texels : /\ pixels[textureB][t].g # Zero
                         /\ pixels[textureA][t].g # pixels[textureB][t].g
                         /\ pixels[textureA][t].r # pixels[textureB][t].r
    /\ \E t \in Texels : Neighbours(t)[1] = t

\* C9: after addDrop with radius > 0, every texel whose distance from the
\* drop centre is at least radius has the height it had before the call.
C9_DropLocality ==
    (lastCall.op = "addDrop" /\ RLess(Zero, lastCall.radius)) =>
        \A t \in Texels :
            RLeq(RMul(lastCall.radius, lastCall.radius),
                 Dist2(lastCall.center, t))
                => pixels[textureA][t].r = pixels[textureB][t].r

C9_Witness ==
    /\ lastCall.op = "addDrop"
    /\ lastCall.strength # Zero
    /\ \E t \in Texels :
           /\ Dist2(lastCall.center, t) = RMul(lastCall.radius, lastCall.radius)
           /\ pixels[textureA][t].r # Zero
    /\ \E t \in Texels :
           /\ RLess(RMul(lastCall.radius, lastCall.radius),
                    Dist2(lastCall.center, t))
           /\ pixels[textureA][t].r # Zero
    /\ \E t \in Texels : pixels[textureA][t].r # pixels[textureB][t].r

Sessions == 1 .. MaxSessions

EventTypes == {"click", "touchstart"}

\* GPU objects the WaterSimulation constructor creates
SimResources == {"textureA", "textureB", "coordBuffer", "dropProgram",
                 "updateProgram", "normalProgram", "framebuffer"}

\* GPU objects the effect body creates itself
EffectResources == {"videoTexture", "buffer", "program"}

\* window.innerWidth, window.innerHeight, window.devicePixelRatio
Viewports == {[w |-> 4, h |-> 3, dpr |-> Rat(1, 1)],
              [w |-> 3, h |-> 4, dpr |-> Rat(2, 1)]}

\* Math.floor(n * dpr)
FloorScaled(n, dpr) == (n * dpr[1]) \div dpr[2]

\* resize(): the backing size the canvas gets for viewport v
BackingSize(v) == <<FloorScaled(v.w, v.dpr), FloorScaled(v.h, v.dpr)>>

NoFrame == [session |-> 0, passes |-> <<>>, water |-> "none",
            videoReady |-> FALSE, decodable |-> FALSE,
            uVideoReady |-> 0, uploaded |-> FALSE, videoSampled |-> FALSE,
            simViewport |-> <<0, 0>>]

\* the session whose cleanup function React holds (0 when there is none)
Running == IF \E s \in Sessions : status[s] = "running"
           THEN CHOOSE s \in Sessions : status[s] = "running"
           ELSE 0

\* what a browser with full WebGL support gives the effect
FullCaps == [float |-> TRUE, shaders |-> "ok"]

\* the WebGL implementations the effect may meet: float / half-float
\* textures renderable or not; the shader sources compile and link, or a
\* shader fails to compile, or a program fails to link
Caps == [float : BOOLEAN, shaders : {"ok", "compileFails", "linkFails"}]

\* new WaterSimulation(gl, simRes, simRes): the constructor ignores what
\* getExtension('OES_texture_float') returns and texImage2D with an
\* unsupported type records a GL error without throwing, so the catch of
\* the effect is not entered for any caps
ConstructorThrows(caps) == FALSE

\* const simRes = 256
simRes == 256

\* console.error calls of createProgram (WaterSimulation) and createShader:
\* the info log of a shader whose COMPILE_STATUS is false; LINK_STATUS is
\* never read
SetupDiagnostics(caps) ==
    IF caps.shaders = "compileFails" THEN {"shaderInfoLog"} ELSE {}

\* startCamera() up to its first await, after n getUserMedia calls
StartCamera(hasCamera, n) ==
    IF hasCamera THEN [camera |-> "requesting", requested |-> n + 1]
    ELSE [camera |-> "noApi", requested |-> n]

\* an outer catch that starts the camera again
CameraFailRetry(n) == [camera |-> "requesting", requested |-> n + 1]

\* startCamera(): catch (e) { console.error("Camera fail", e); }
CameraFail(n) == [camera |-> "failed", requested |-> n]

LifeInit ==
    /\ enabled = FALSE
    /\ sessions = 0
    /\ status = [s \in Sessions |-> "unused"]
    /\ gpu = [s \in Sessions |-> {}]
    /\ videoInDom = [s \in Sessions |-> FALSE]
    /\ videoRef = 0
    /\ simulationRef = 0
    /\ stream = [s \in Sessions |-> "null"]
    /\ camera = [s \in Sessions |-> "idle"]
    /\ videoReady = [s \in Sessions |-> FALSE]
    /\ docListeners = {}
    /\ forcePlays = [s \in Sessions |-> 0]
    /\ resizeListeners = {}
    /\ frameRequests = {}
    /\ nextFrameId = 1
    /\ raf = [s \in Sessions |-> 0]
    /\ simTex = [s \in Sessions |-> <<"none", "none">>]
    /\ lastFrame = NoFrame
    /\ viewport = [w |-> 4, h |-> 3, dpr |-> Rat(1, 1)]
    /\ canvasSize = [s \in Sessions |-> <<0, 0>>]
    /\ logged = [s \in Sessions |-> {}]
    /\ simSize = [s \in Sessions |-> <<0, 0>>]
    /\ requested = [s \in Sessions |-> 0]

\* how far setup gets: canvas.getContext(...) || canvas.getContext(...)
\* gave no context, or new WaterSimulation threw, or neither
SetupOutcome(hasGL, caps) ==
    IF ~hasGL THEN "noContext"
    ELSE IF ConstructorThrows(caps) THEN "noSimulation"
    ELSE "running"

ReturnsAfterThrowOnly(outcome) == outcome = "noSimulation"

\* the return that follows console.error in if (!gl) { ... } and in the
\* catch around new WaterSimulation
ReturnsAfterError(outcome) == outcome # "running"

\* the effect body, run for a new session.  hasGL: canvas.getContext gave a
\* context; hasCamera: navigator.mediaDevices?.getUserMedia exists.
Enable(hasGL, hasCamera) ==
    /\ ~enabled
    /\ sessions < MaxSessions
    /\ nextFrameId <= MaxFrames
    /\ enabled' = TRUE
    /\ sessions' = sessions + 1
    /\ LET s == sessions + 1
           outcome == SetupOutcome(hasGL, gpuCaps)
       IN  IF ReturnsAfterError(outcome)
           THEN /\ status' = [status EXCEPT ![s] = outcome]
                /\ logged' = [logged EXCEPT ![s] =
                                 IF ~hasGL THEN {"WebGL not supported"}
                                 ELSE {"Failed to init water sim"}]
                /\ UNCHANGED <<gpu, videoInDom, videoRef, simulationRef,
                               camera, resizeListeners, frameRequests,
                               nextFrameId, raf, simTex, canvasSize,
                               simSize, requested>>
           ELSE /\ status' = [status EXCEPT ![s] = outcome]
                /\ gpu' = [gpu EXCEPT ![s] = SimResources \cup EffectResources]
                /\ simTex' = [simTex EXCEPT ![s] = <<"tex1", "tex2">>]
                /\ simulationRef' = s
                /\ videoInDom' = [videoInDom EXCEPT ![s] = TRUE]
                /\ videoRef' = s
                /\ simSize' = [simSize EXCEPT ![s] = <<simRes, simRes>>]
                /\ logged' = [logged EXCEPT ![s] = SetupDiagnostics(gpuCaps)]
                /\ camera' = [camera EXCEPT ![s] =
                                 StartCamera(hasCamera, requested[s]).camera]
                /\ requested' = [requested EXCEPT ![s] =
                                 StartCamera(hasCamera, @).requested]
                /\ resizeListeners' = resizeListeners \cup {s}
                /\ canvasSize' = [canvasSize EXCEPT ![s] = BackingSize(viewport)]
                /\ raf' = [raf EXCEPT ![s] = nextFrameId]
                /\ frameRequests' = frameRequests \cup {<<s, nextFrameId>>}
                /\ nextFrameId' = nextFrameId + 1
    /\ UNCHANGED <<stream, videoReady, docListeners, forcePlays, lastFrame,
                   viewport>>
    /\ UNCHANGED <<gpuCaps, useCamera>>
    /\ UNCHANGED <<simvars, framevars, appvars>>

\* cancelAnimationFrame(id)
FrameRequestsAfterCancel(requests, id) == {f \in requests : f[2] # id}

\* enabled becomes false (or the component unmounts): React runs the cleanup
\* function of the running session, if the effect body returned one, and
\* the component renders null, which unmounts the session's <canvas>
Disable ==
    /\ enabled
    /\ enabled' = FALSE
    /\ IF Running = 0
       THEN UNCHANGED <<status, frameRequests, resizeListeners, videoInDom,
                        stream, canvasSize>>
       ELSE LET s == Running
            IN  /\ status' = [status EXCEPT ![s] = "disposed"]
                /\ frameRequests' = FrameRequestsAfterCancel(frameRequests, raf[s])
                /\ resizeListeners' = resizeListeners \ {s}
                /\ videoInDom' = [videoInDom EXCEPT ![s] = FALSE]
                /\ stream' = [stream EXCEPT ![s] =
                                 IF @ = "null" THEN "null" ELSE "stopped"]
                /\ canvasSize' = [canvasSize EXCEPT ![s] = <<0, 0>>]
    /\ UNCHANGED <<sessions, gpu, videoRef, simulationRef, camera, videoReady,
                   docListeners, forcePlays, nextFrameId, raf, simTex,
                   lastFrame, viewport>>
    /\ UNCHANGED setupvars
    /\ UNCHANGED <<simvars, framevars, appvars>>

(***************************************************************************)
(* startCamera(): the continuations of its two awaits, and forcePlay       *)
(***************************************************************************)
\* getUserMedia resolves: stream = <the MediaStream>; video.srcObject =
\* stream; video.play() is called and awaited
GetUserMediaResolve(s) ==
    /\ camera[s] = "requesting"
    /\ stream' = [stream EXCEPT ![s] = "live"]
    /\ camera' = [camera EXCEPT ![s] = "playing"]
    /\ UNCHANGED <<enabled, sessions, status, gpu, videoInDom, videoRef,
                   simulationRef, videoReady, docListeners, forcePlays,
                   resizeListeners, frameRequests, nextFrameId, raf, simTex,
                   lastFrame, viewport, canvasSize>>
    /\ UNCHANGED setupvars
    /\ UNCHANGED <<simvars, framevars, appvars>>

\* getUserMedia rejects: the outer catch logs "Camera fail"
GetUserMediaReject(s) ==
    /\ camera[s] = "requesting"
    /\ camera' = [camera EXCEPT ![s] = CameraFail(requested[s]).camera]
    /\ requested' = [requested EXCEPT ![s] = CameraFail(@).requested]
    /\ UNCHANGED <<enabled, sessions, status, gpu, videoInDom, videoRef,
                   simulationRef, stream, videoReady, docListeners, forcePlays,
                   resizeListeners, frameRequests, nextFrameId, raf, simTex,
                   lastFrame, viewport, canvasSize>>
    /\ UNCHANGED <<gpuCaps, logged, simSize, useCamera>>
    /\ UNCHANGED <<simvars, framevars, appvars>>

\* await video.play() resolves: videoReady = true
PlayResolve(s) ==
    /\ camera[s] = "playing"
    /\ camera' = [camera EXCEPT ![s] = "ready"]
    /\ videoReady' = [videoReady EXCEPT ![s] = TRUE]
    /\ UNCHANGED <<enabled, sessions, status, gpu, videoInDom, videoRef,
                   simulationRef, stream, docListeners, forcePlays,
                   resizeListeners, frameRequests, nextFrameId, raf, simTex,
                   lastFrame, viewport, canvasSize>>
    /\ UNCHANGED setupvars
    /\ UNCHANGED <<simvars, framevars, appvars>>

\* await video.play() rejects: forcePlay is registered for click and
\* touchstart on document
PlayReject(s) ==
    /\ camera[s] = "playing"
    /\ camera' = [camera EXCEPT ![s] = "blocked"]
    /\ docListeners' = docListeners \cup {<<s, e>> : e \in EventTypes}
    /\ UNCHANGED <<enabled, sessions, status, gpu, videoInDom, videoRef,
                   simulationRef, stream, videoReady, forcePlays,
                   resizeListeners, frameRequests, nextFrameId, raf, simTex,
                   lastFrame, viewport, canvasSize>>
    /\ UNCHANGED setupvars
    /\ UNCHANGED <<simvars, framevars, appvars>>

\* a click or touchstart on the document: every registered forcePlay runs
\* and calls video.play()
Gesture(e) ==
    /\ \E s \in Sessions : <<s, e>> \in docListeners
    /\ \A s \in Sessions : <<s, e>> \in docListeners => forcePlays[s] < MaxRetries
    /\ forcePlays' = [s \in Sessions |->
                         IF <<s, e>> \in docListeners THEN forcePlays[s] + 1
                         ELSE forcePlays[s]]
    /\ UNCHANGED <<enabled, sessions, status, gpu, videoInDom, videoRef,
                   simulationRef, stream, camera, videoReady, docListeners,
                   resizeListeners, frameRequests, nextFrameId, raf, simTex,
                   lastFrame, viewport, canvasSize>>
    /\ UNCHANGED setupvars
    /\ UNCHANGED <<simvars, framevars, appvars>>

\* the play() promise of a forcePlay call resolves: its then-callback sets
\* videoReady and removes both listeners
ForcePlayResolve(s) ==
    /\ forcePlays[s] > 0
    /\ forcePlays' = [forcePlays EXCEPT ![s] = @ - 1]
    /\ videoReady' = [videoReady EXCEPT ![s] = TRUE]
    /\ docListeners' = docListeners \ {<<s, e>> : e \in EventTypes}
    /\ UNCHANGED <<enabled, sessions, status, gpu, videoInDom, videoRef,
                   simulationRef, stream, camera, resizeListeners,
                   frameRequests, nextFrameId, raf, simTex, lastFrame,
                   viewport, canvasSize>>
    /\ UNCHANGED setupvars
    /\ UNCHANGED <<simvars, framevars, appvars>>

\* the play() promise of a forcePlay call rejects: nothing handles it
ForcePlayReject(s) ==
    /\ forcePlays[s] > 0
    /\ forcePlays' = [forcePlays EXCEPT ![s] = @ - 1]
    /\ UNCHANGED <<enabled, sessions, status, gpu, videoInDom, videoRef,
                   simulationRef, stream, camera, videoReady, docListeners,
                   resizeListeners, frameRequests, nextFrameId, raf, simTex,
                   lastFrame, viewport, canvasSize>>
    /\ UNCHANGED setupvars
    /\ UNCHANGED <<simvars, framevars, appvars>>

(***************************************************************************)
(* resize and the frame loop                                               *)
(***************************************************************************)
\* the window is resized to viewport v: every registered resize runs
WindowResize(v) ==
    /\ v # viewport
    /\ viewport' = v
    /\ canvasSize' = [s \in Sessions |->
                         IF s \in resizeListeners THEN BackingSize(v)
                         ELSE canvasSize[s]]
    /\ UNCHANGED <<enabled, sessions, status, gpu, videoInDom, videoRef,
                   simulationRef, stream, camera, videoReady, docListeners,
                   forcePlays, resizeListeners, frameRequests, nextFrameId,
                   raf, simTex, lastFrame>>
    /\ UNCHANGED setupvars
    /\ UNCHANGED <<simvars, framevars, appvars>>

\* the solver calls of one frame: handleInteraction (a drop when the pointer
\* is down), addRandomDrops (a drop when Math.random() < 0.02),
\* stepSimulation, updateNormals
FramePasses(down, random) ==
    (IF down THEN <<"addDrop">> ELSE <<>>) \o
    (IF random THEN <<"addDrop">> ELSE <<>>) \o
    <<"stepSimulation", "updateNormals">>

\* <<textureA, textureB>> after n passes, each ending in swap()
RECURSIVE SwapTimes(_, _)
SwapTimes(tex, n) == IF n = 0 THEN tex
                     ELSE SwapTimes(Swap(tex[1], tex[2]), n - 1)

\* a render() that raises uVideoReady as soon as the closure's videoReady
\* is set, whatever video.readyState is
UVideoReadyNoReadyState(ready, decodable) == IF ready THEN 1 ELSE 0

\* the uniform render() sets: 1.0 in the branch that uploads the video
\* frame (videoReady && video.readyState >= 2), else 0.0
UVideoReady(ready, decodable) == IF ready /\ decodable THEN 1 ELSE 0

\* the compositor's if (uVideoReady > 0.5): the branch with the
\* texture2D(uVideo, ...) calls; the else branch is the procedural colour
SamplesVideo(u) == 2 * u > 1

PassViewportOfCanvas(size, current) == current

\* renderToTexture: gl.viewport(0, 0, this.width, this.height) before the
\* pass draws, whatever viewport resize() or the last frame left (current)
PassViewport(size, current) == size

\* a render() that requests the next frame without keeping its id
RafDropped(old, id) == old

\* raf = requestAnimationFrame(render) at the end of render()
RafAfterRequest(old, id) == id

\* the browser runs the pending frame callback <<s, id>>: render().
\* down: the pointer's down flag; random: Math.random() < 0.02;
\* decodable: video.readyState >= 2
Render(s, id, down, random, decodable) ==
    /\ <<s, id>> \in frameRequests
    /\ nextFrameId <= MaxFrames
    /\ decodable => stream[s] # "null"
    /\ LET passes == FramePasses(down, random)
           tex    == SwapTimes(simTex[s], Len(passes))
           upload == videoReady[s] /\ decodable
       IN  /\ simTex' = [simTex EXCEPT ![s] = tex]
           /\ lastFrame' = [session |-> s, passes |-> passes,
                            water |-> tex[1],
                            videoReady |-> videoReady[s],
                            decodable |-> decodable,
                            uVideoReady |-> UVideoReady(videoReady[s], decodable),
                            uploaded |-> upload,
                            videoSampled |->
                                SamplesVideo(UVideoReady(videoReady[s], decodable)),
                            simViewport |->
                                PassViewport(simSize[s], canvasSize[s])]
    /\ raf' = [raf EXCEPT ![s] = RafAfterRequest(@, nextFrameId)]
    /\ frameRequests' = (frameRequests \ {<<s, id>>}) \cup {<<s, nextFrameId>>}
    /\ nextFrameId' = nextFrameId + 1
    /\ UNCHANGED <<enabled, sessions, status, gpu, videoInDom, videoRef,
                   simulationRef, stream, camera, videoReady, docListeners,
                   forcePlays, resizeListeners, viewport, canvasSize>>
    /\ UNCHANGED setupvars
    /\ UNCHANGED <<simvars, framevars, appvars>>

(***************************************************************************)
(* One frame of render() over the solver, and the pointer that feeds it:   *)
(* WritingCanvas reports stroke events through onStrokeUpdate, App's       *)
(* handleStrokeUpdate stores them in sharedPointerRef.current, and         *)
(* handleInteraction reads that object at the top of every frame.          *)
(***************************************************************************)
\* App: sharedPointerRef = useRef({ x: 0, y: 0, down: 0 })
NoPointer == [x |-> Zero, y |-> Zero, down |-> 0]

NoEvent == [kind |-> "none", clientX |-> Zero, clientY |-> Zero,
            inner |-> <<0, 0>>, dpr |-> One]

NoRender == [calls |-> <<>>, water |-> "none", pointer |-> NoPointer,
             canvas |-> <<0, 0>>]

\* e.clientX, e.clientY of the pointer events in viewport v: its top-left
\* corner, its centre, its bottom-right corner
ClientPoints(v) == {<<Zero, Zero>>, <<Rat(v.w, 2), Rat(v.h, 2)>>,
                    <<Rat(v.w, 1), Rat(v.h, 1)>>}

\* the values of the four Math.random() calls addRandomDrops may make
RandomDraws == {<<Half, Half, Half, Half>>,
                <<Rat(1, 100), Rat(1, 4), Rat(1, 4), Rat(3, 4)>>,
                <<Rat(1, 100), Rat(1, 4), Rat(1, 4), Rat(1, 4)>>}

\* WATER_FX.autoWaveStrength
AutoWaveStrength == Rat(24, 100)

\* getPointerPosition(e): the viewport-normalized pair vx, vy
GetPointerPosition(clientX, clientY, v) ==
    [vx |-> RDiv(clientX, Rat(v.w, 1)), vy |-> RDiv(clientY, Rat(v.h, 1))]

\* handleStrokeUpdate(x, y, isDown) with window.innerHeight and
\* devicePixelRatio of viewport v
HandleStrokeUpdate(x, y, isDown, v) ==
    [x    |-> RMul(x, v.dpr),
     y    |-> RMul(RSub(Rat(v.h, 1), y), v.dpr),
     down |-> IF isDown THEN 1 ELSE 0]

\* startDrawing(e) / draw(e): onStrokeUpdate(vx, vy, true)
StrokePoint(clientX, clientY) ==
    /\ LET pos == GetPointerPosition(clientX, clientY, viewport)
       IN  pointer' = HandleStrokeUpdate(pos.vx, pos.vy, TRUE, viewport)
    /\ lastEvent' = [kind |-> "stroke", clientX |-> clientX,
                     clientY |-> clientY, inner |-> <<viewport.w, viewport.h>>,
                     dpr |-> viewport.dpr]
    /\ UNCHANGED <<frames, rendered>>
    /\ UNCHANGED <<simvars, lifevars, appvars>>

\* stopDrawing(e): onStrokeUpdate(0, 0, false)
StopDrawing ==
    /\ lastEvent.kind = "stroke"
    /\ pointer' = HandleStrokeUpdate(Zero, Zero, FALSE, viewport)
    /\ lastEvent' = [kind |-> "end", clientX |-> Zero, clientY |-> Zero,
                     inner |-> <<viewport.w, viewport.h>>, dpr |-> viewport.dpr]
    /\ UNCHANGED <<frames, rendered>>
    /\ UNCHANGED <<simvars, lifevars, appvars>>

\* a handleInteraction that does not look at the down flag
HandleInteractionAlways(ptr, size) ==
    LET px == RSub(RMul(RDiv(ptr.x, Rat(size[1], 1)), Rat(2, 1)), One)
        py == RSub(RMul(RDiv(ptr.y, Rat(size[2], 1)), Rat(2, 1)), One)
    IN  << [op |-> "addDrop", by |-> "pointer", center |-> <<px, py>>,
            radius |-> Rat(4, 100), strength |-> Rat(2, 100)] >>

\* handleInteraction(): the addDrop call it makes for pointer state ptr on
\* a canvas of the given size
HandleInteraction(ptr, size) ==
    LET px == RSub(RMul(RDiv(ptr.x, Rat(size[1], 1)), Rat(2, 1)), One)
        py == RSub(RMul(RDiv(ptr.y, Rat(size[2], 1)), Rat(2, 1)), One)
    IN  IF ptr.down # 0
        THEN << [op |-> "addDrop", by |-> "pointer", center |-> <<px, py>>,
                 radius |-> Rat(4, 100), strength |-> Rat(2, 100)] >>
        ELSE <<>>

\* addRandomDrops(): the addDrop call it makes when Math.random() returns
\* u[1], u[2], u[3], u[4] in turn
AddRandomDrops(u) ==
    IF RLess(u[1], Rat(2, 100))
    THEN << [op |-> "addDrop", by |-> "random",
             center |-> <<RSub(RMul(u[2], Rat(2, 1)), One),
                          RSub(RMul(u[3], Rat(2, 1)), One)>>,
             radius |-> Rat(3, 100),
             strength |-> RMul(RSub(u[4], Half), AutoWaveStrength)] >>
    ELSE <<>>

SolverCall(name) == [op |-> name, by |-> "frame", center |-> <<Zero, Zero>>,
                     radius |-> Zero, strength |-> Zero]

\* a render() that recomputes the normals before it advances the field
FrameCallsNormalsFirst(ptr, size, u) ==
    HandleInteraction(ptr, size) \o AddRandomDrops(u) \o
    <<SolverCall("updateNormals"), SolverCall("stepSimulation")>>

\* render(), part 1: the solver calls of one frame, in order
FrameCalls(ptr, size, u) ==
    HandleInteraction(ptr, size) \o AddRandomDrops(u) \o
    <<SolverCall("stepSimulation"), SolverCall("updateNormals")>>

\* one pass of the solver on sim = [A, B, px]: renderToTexture(textureB)
\* sampling textureA, then swap()
Pass(sim, call) ==
    LET target == RenderTarget(sim.A, sim.B)
        source == Sampled(sim.A, sim.B)
        drawn  == [t \in Texels |->
                     CASE call.op = "addDrop" ->
                              DropShader(sim.px[source], t, call.center,
                                         call.radius, call.strength)
                       [] call.op = "stepSimulation" ->
                              UpdateShader(sim.px[source], t)
                       [] call.op = "updateNormals" ->
                              NormalShader(sim.px[source], t)]
    IN  [A  |-> Swap(sim.A, sim.B)[1],
         B  |-> Swap(sim.A, sim.B)[2],
         px |-> [sim.px EXCEPT ![target] = drawn]]

RECURSIVE RunCalls(_, _)
RunCalls(sim, calls) ==
    IF calls = <<>> THEN sim
    ELSE RunCalls(Pass(sim, Head(calls)), Tail(calls))

\* render() of the session that owns the solver: the solver calls, then the
\* compositor binds waterSim.textureA to TEXTURE0 and draws to the screen
RenderFrame(u) ==
    /\ frames < MaxFrames
    /\ TextureDen(pixels[textureA]) <= MaxDen
    /\ LET calls == FrameCalls(pointer, BackingSize(viewport), u)
           sim   == RunCalls([A |-> textureA, B |-> textureB, px |-> pixels],
                             calls)
       IN  /\ textureA' = sim.A
           /\ textureB' = sim.B
           /\ pixels' = sim.px
           /\ boundTexture' = sim.A
           /\ attachment' = sim.A
           /\ rendered' = [calls |-> calls, water |-> sim.A,
                           pointer |-> pointer,
                           canvas |-> BackingSize(viewport)]
    /\ lastCall' = [NoCall EXCEPT !.op = "updateNormals"]
    /\ frames' = frames + 1
    /\ UNCHANGED <<drops, settle, zeroRun, zeroBase>>
    /\ UNCHANGED <<pointer, lastEvent>>
    /\ UNCHANGED <<lifevars, appvars>>

FrameInit ==
    /\ pointer = NoPointer
    /\ lastEvent = NoEvent
    /\ frames = 0
    /\ rendered = NoRender

(***************************************************************************)
(* getSnapshot(): the imperative handle App calls to photograph the user   *)
(***************************************************************************)
NoSnapshot == [ref |-> 0, readyState |-> 0, threw |-> FALSE, result |-> "none"]

GetSnapshotNoReadyState(ref, readyState, bodyThrows) ==
    IF ref = 0 THEN "null"
    ELSE IF bodyThrows THEN "null" ELSE "dataURL"

\* ref: videoRef.current (0: null); readyState: its readyState;
\* bodyThrows: a call of the try block throws (a null 2d context, a
\* drawImage or toDataURL error), which the catch turns into null
GetSnapshot(ref, readyState, bodyThrows) ==
    IF ref = 0 \/ readyState < 2 THEN "null"
    ELSE IF bodyThrows THEN "null" ELSE "dataURL"

\* App calls backgroundRef.current.getSnapshot().  A video element has
\* data (readyState >= 1) only once a stream was attached to it.
TakeSnapshot(readyState, bodyThrows) ==
    /\ videoRef = 0 => readyState = 0
    /\ (videoRef # 0 /\ readyState > 0) => stream[videoRef] # "null"
    /\ snapshot' = [ref |-> videoRef, readyState |-> readyState,
                    threw |-> bodyThrows,
                    result |-> GetSnapshot(videoRef, readyState, bodyThrows)]
    /\ UNCHANGED <<simvars, lifevars, framevars>>
    /\ UNCHANGED snapOthers

SnapshotInit == snapshot = NoSnapshot

(***************************************************************************)
(* Edge Function get-poems: the limit query parameter                      *)
(***************************************************************************)
\* the characters a limit parameter is made of in the model
ParamChars == {"0", "1", "9", "-", " ", "a", "x"}

\* the decoded values of ?limit=...: strings as sequences of characters
ParamStrings == UNION {[1..n -> ParamChars] : n \in 0..MaxParamLen}

\* searchParams.get('limit'): null when the parameter is absent
AbsentParam == [present |-> FALSE, value |-> <<>>]
LimitQueries == {AbsentParam} \cup {[present |-> TRUE, value |-> v] : v \in ParamStrings}

NaN == [nan |-> TRUE, n |-> 0]
Num(n) == [nan |-> FALSE, n |-> n]

\* the digits of radix 16 in order; those of radix 10 are the first ten
HexDigits == <<"0", "1", "2", "3", "4", "5", "6", "7", "8", "9",
               "a", "b", "c", "d", "e", "f">>

\* value of character c as a digit of radix R, -1 when it is none
DigitVal(c, R) ==
    IF \E k \in 1..R : HexDigits[k] = c
    THEN (CHOOSE k \in 1..R : HexDigits[k] = c) - 1
    ELSE -1

\* the longest prefix of str from position i made of radix-R digits, as a
\* number: acc is the value so far, any says a digit was read
RECURSIVE ParseDigits(_, _, _, _, _)
ParseDigits(str, i, R, acc, any) ==
    IF i > Len(str) \/ DigitVal(str[i], R) < 0
    THEN IF any THEN Num(acc) ELSE NaN
    ELSE ParseDigits(str, i + 1, R, acc * R + DigitVal(str[i], R), TRUE)

RECURSIVE SkipSpaces(_, _)
SkipSpaces(str, i) ==
    IF i <= Len(str) /\ str[i] = " " THEN SkipSpaces(str, i + 1) ELSE i

\* parseInt(string) of ECMAScript without a radix: leading white space is
\* skipped, then an optional sign, then an optional 0x that selects radix
\* 16, then the digits up to the first character that is none
ParseInt(str) ==
    LET i    == SkipSpaces(str, 1)
        neg  == i <= Len(str) /\ str[i] = "-"
        j    == IF i <= Len(str) /\ str[i] \in {"-", "+"} THEN i + 1 ELSE i
        hex  == j + 1 <= Len(str) /\ str[j] = "0" /\ str[j + 1] = "x"
        mag  == IF hex THEN ParseDigits(str, j + 2, 16, 0, FALSE)
                ELSE ParseDigits(str, j, 10, 0, FALSE)
    IN  IF mag.nan THEN NaN
        ELSE IF neg THEN Num(0 - mag.n) ELSE mag

\* Math.max and Math.min: NaN when an argument is NaN
MathMax(a, b) ==
    IF a.nan \/ b.nan THEN NaN ELSE IF a.n >= b.n THEN a ELSE b
MathMin(a, b) ==
    IF a.nan \/ b.nan THEN NaN ELSE IF a.n <= b.n THEN a ELSE b

\* the string "50"
DefaultLimit == <<"5", "0">>

\* url.searchParams.get('limit') || '50': null and "" are falsy
LimitParam(q) ==
    IF ~q.present \/ q.value = <<>> THEN DefaultLimit ELSE q.value

\* Math.min(Math.max(parseInt(limitParam), 1), 100)
EffectiveLimit(q) ==
    MathMin(MathMax(ParseInt(LimitParam(q)), Num(1)), Num(100))

NoLimit == [nan |-> FALSE, n |-> 0]

\* the handler of GET /get-poems for a list request with limit query q
GetPoems(q) ==
    /\ limitQuery' = q
    /\ limit' = EffectiveLimit(q)
    /\ UNCHANGED <<simvars, lifevars, framevars>>
    /\ UNCHANGED apiOthers

GetPoemsInit ==
    /\ limitQuery = AbsentParam
    /\ limit = NoLimit

(***************************************************************************)
(* Window resize: RippleBackground's resize listener and WritingCanvas's   *)
(* debounced resizeCanvas, both mounted                                    *)
(***************************************************************************)
\* debounce(resizeCanvas, 250)
DebounceWait == 250

\* the amounts by which the model lets time advance
TimeSteps == {50, 250}

NoBurst == [len |-> 0, last |-> 0]
NoRuns == [count |-> 0, at |-> 0]

\* executedFunction: clearTimeout(timeout); timeout = setTimeout(later, wait)
Debounced(timer, t) == t + DebounceWait

\* one more run of a resize function at time t
RunAt(runs, t) == [count |-> runs.count + 1, at |-> t]

\* the window fires resize.  RippleBackground registered resize itself as
\* the listener, so it runs now; WritingCanvas registered debouncedResize.
\* An event after a quiet quarter second starts a new burst.
WindowResizeEvent ==
    /\ resizeTimer # now
    /\ LET fresh == burst.len = 0 \/ now - burst.last >= DebounceWait
       IN  /\ fresh \/ burst.len < MaxBurst
           /\ burst' = [len |-> IF fresh THEN 1 ELSE burst.len + 1, last |-> now]
           /\ renderRuns' = RunAt(IF fresh THEN NoRuns ELSE renderRuns, now)
           /\ drawRuns' = IF fresh THEN NoRuns ELSE drawRuns
    /\ resizeTimer' = Debounced(resizeTimer, now)
    /\ UNCHANGED now
    /\ UNCHANGED <<simvars, lifevars, framevars>>
    /\ UNCHANGED resizeOthers

\* later(): clearTimeout(timeout); func(...args)
DebounceTimerFires ==
    /\ resizeTimer = now
    /\ resizeTimer' = -1
    /\ drawRuns' = RunAt(drawRuns, now)
    /\ UNCHANGED <<now, burst, renderRuns>>
    /\ UNCHANGED <<simvars, lifevars, framevars>>
    /\ UNCHANGED resizeOthers

\* time advances by d, but not past a timer that is due
TimePasses(d) ==
    /\ now + d <= MaxTime
    /\ resizeTimer # now
    /\ now' = IF resizeTimer > now /\ resizeTimer < now + d
              THEN resizeTimer ELSE now + d
    /\ UNCHANGED <<resizeTimer, burst, renderRuns, drawRuns>>
    /\ UNCHANGED <<simvars, lifevars, framevars>>
    /\ UNCHANGED resizeOthers

ResizeInit ==
    /\ now = 0
    /\ resizeTimer = -1
    /\ burst = NoBurst
    /\ renderRuns = NoRuns
    /\ drawRuns = NoRuns

(***************************************************************************)
(* App: submitting a drawing, the background save, and the two handlers    *)
(* that change the poem on display                                         *)
(***************************************************************************)
\* the poems getRecentPoems() loaded at mount
HistoryPoems == {1}

\* the poem the n-th submission generates
SubmittedPoem(n) == Cardinality(HistoryPoems) + n

\* handleCanvasSubmit up to its first await (WritingCanvas is mounted only
\* in the writing state)
SubmitCanvas ==
    /\ appState = "writing"
    /\ generating = 0
    /\ submissions < MaxSubmissions
    /\ submissions' = submissions + 1
    /\ generating' = submissions + 1
    /\ appState' = "processing"
    /\ UNCHANGED <<poem, poemId, recentPoems, pendingSaves>>
    /\ UNCHANGED <<simvars, lifevars, framevars>>
    /\ UNCHANGED poemOthers

\* generatePoemMultimodal resolves with a poem: setPoem, setAppState(POEM),
\* the input image is uploaded and savePoem is started, not awaited.
\* configured: isSupabaseConfigured()
GenerateResolve(configured) ==
    /\ generating # 0
    /\ poem' = SubmittedPoem(generating)
    /\ appState' = "poem"
    /\ pendingSaves' = IF configured
                       THEN pendingSaves \cup {SubmittedPoem(generating)}
                       ELSE pendingSaves
    /\ generating' = 0
    /\ UNCHANGED <<poemId, recentPoems, submissions>>
    /\ UNCHANGED <<simvars, lifevars, framevars>>
    /\ UNCHANGED poemOthers

\* it rejects or gives no poem: the catch sets the error state
GenerateReject ==
    /\ generating # 0
    /\ generating' = 0
    /\ appState' = "error"
    /\ UNCHANGED <<poem, poemId, recentPoems, pendingSaves, submissions>>
    /\ UNCHANGED <<simvars, lifevars, framevars>>
    /\ UNCHANGED poemOthers

\* if (savedPoem?.id) setPoemId(savedPoem.id): current is poemId, shown the
\* poem on display when savePoem resolves, saved the saved row
PoemIdAfterSave(current, shown, saved) == saved

\* savePoem of poem p resolves with its row
SaveResolve(p) ==
    /\ p \in pendingSaves
    /\ pendingSaves' = pendingSaves \ {p}
    /\ poemId' = PoemIdAfterSave(poemId, poem, p)
    /\ recentPoems' = recentPoems \cup {p}
    /\ UNCHANGED <<appState, poem, generating, submissions>>
    /\ UNCHANGED <<simvars, lifevars, framevars>>
    /\ UNCHANGED poemOthers

\* savePoem rejects, or resolves without an id: nothing is set
SaveReject(p) ==
    /\ p \in pendingSaves
    /\ pendingSaves' = pendingSaves \ {p}
    /\ UNCHANGED <<appState, poem, poemId, recentPoems, generating, submissions>>
    /\ UNCHANGED <<simvars, lifevars, framevars>>
    /\ UNCHANGED poemOthers

\* handleNewPoem: the button of PoemDisplay and of the error screen
HandleNewPoem ==
    /\ appState \in {"poem", "error"}
    /\ appState' = "writing"
    /\ poem' = 0
    /\ poemId' = 0
    /\ UNCHANGED <<recentPoems, generating, pendingSaves, submissions>>
    /\ UNCHANGED <<simvars, lifevars, framevars>>
    /\ UNCHANGED poemOthers

\* handleSelectHistoryPoem(h): the carousel of the poem screen, or the
\* gallery button of the writing screen
HandleSelectHistoryPoem(h) ==
    /\ appState \in {"poem", "writing"}
    /\ h \in recentPoems
    /\ poem' = h
    /\ poemId' = h
    /\ appState' = "poem"
    /\ UNCHANGED <<recentPoems, generating, pendingSaves, submissions>>
    /\ UNCHANGED <<simvars, lifevars, framevars>>
    /\ UNCHANGED poemOthers

PoemInit ==
    /\ appState = "writing"
    /\ poem = 0
    /\ poemId = 0
    /\ recentPoems = HistoryPoems
    /\ generating = 0
    /\ pendingSaves = {}
    /\ submissions = 0

(***************************************************************************)
(* PoemDisplay: the effects and timers that reveal a poem word by word     *)
(***************************************************************************)
\* totalWords of the poems the display is given
PoemWords == <<3, 2>>
DisplayPoems == DOMAIN PoemWords

\* totalWords of the poem prop
TotalWords(p) == IF p = 0 THEN 0 ELSE PoemWords[p]

\* the timers: n is the change of poem whose effects set the timer;
\* currentWord and total are the variables its closure holds
StartTimer(n) == [kind |-> "start", chain |-> n, currentWord |-> 0, total |-> 0]
WordTimer(n, currentWord, total) ==
    [kind |-> "word", chain |-> n, currentWord |-> currentWord, total |-> total]
CompleteTimer(n, total) ==
    [kind |-> "complete", chain |-> n, currentWord |-> total, total |-> total]

\* what the effect cleanups clear when the poem changes: clearTimeout(timer)
\* of the start-animation effect and clearTimeout(initialTimeout) of the
\* word effect; the timers showNextWord set itself are not kept anywhere
ClearedOnChange(t) ==
    \/ t.kind = "start"
    \/ t.kind = "word" /\ t.currentWord = 0

\* the poem prop becomes p: the reset effect, the start-animation effect
\* and the cleanups they cause
PoemChanges(p) ==
    /\ p # shownPoem
    /\ poemChanges < MaxPoemChanges
    /\ poemChanges' = poemChanges + 1
    /\ shownPoem' = p
    /\ visibleWords' = 0
    /\ isAllComplete' = FALSE
    /\ startTextAnimation' = FALSE
    /\ timers' = {t \in timers : ~ClearedOnChange(t)}
                     \cup {StartTimer(poemChanges + 1)}
    /\ UNCHANGED <<simvars, lifevars, framevars>>
    /\ UNCHANGED revealOthers

\* the 500 ms timer: setStartTextAnimation(true); the word effect runs
\* and sets initialTimeout = setTimeout(showNextWord, 300)
StartTimerFires(t) ==
    /\ t \in timers
    /\ t.kind = "start"
    /\ startTextAnimation' = TRUE
    /\ timers' = (timers \ {t}) \cup
                     (IF TotalWords(shownPoem) = 0 THEN {}
                      ELSE {WordTimer(t.chain, 0, TotalWords(shownPoem))})
    /\ UNCHANGED <<shownPoem, visibleWords, isAllComplete, poemChanges>>
    /\ UNCHANGED <<simvars, lifevars, framevars>>
    /\ UNCHANGED revealOthers

\* showNextWord(): setVisibleWords(prev => prev + 1); currentWord++; then
\* the next word's timer, or the 800 ms timer of setIsAllComplete(true)
ShowNextWord(t) ==
    /\ t \in timers
    /\ t.kind = "word"
    /\ visibleWords' = visibleWords + 1
    /\ timers' = (timers \ {t}) \cup
                     {IF t.currentWord + 1 < t.total
                      THEN WordTimer(t.chain, t.currentWord + 1, t.total)
                      ELSE CompleteTimer(t.chain, t.total)}
    /\ UNCHANGED <<shownPoem, isAllComplete, startTextAnimation, poemChanges>>
    /\ UNCHANGED <<simvars, lifevars, framevars>>
    /\ UNCHANGED revealOthers

\* () => setIsAllComplete(true)
CompleteTimerFires(t) ==
    /\ t \in timers
    /\ t.kind = "complete"
    /\ isAllComplete' = TRUE
    /\ timers' = timers \ {t}
    /\ UNCHANGED <<shownPoem, visibleWords, startTextAnimation, poemChanges>>
    /\ UNCHANGED <<simvars, lifevars, framevars>>
    /\ UNCHANGED revealOthers

RevealInit ==
    /\ shownPoem = 0
    /\ visibleWords = 0
    /\ isAllComplete = FALSE
    /\ startTextAnimation = FALSE
    /\ timers = {}
    /\ poemChanges = 0

(***************************************************************************)
(* services/sync.js: getSyncChannel and the status callback it subscribes  *)
(***************************************************************************)
Channels == 1..MaxChannels

\* the statuses a RealtimeChannel passes to the subscribe callback
ChannelStatuses == {"SUBSCRIBED", "TIMED_OUT", "CHANNEL_ERROR", "CLOSED"}

NoStatus == [chan |-> 0, status |-> "none"]

\* getSyncChannel(): creates and subscribes a channel when none is cached
\* and Supabase is configured; returns the cached one.
\* configured: isSupabaseConfigured()
GetSyncChannel(configured) ==
    /\ IF channel = 0 /\ configured
       THEN /\ channelsCreated < MaxChannels
            /\ channelsCreated' = channelsCreated + 1
            /\ channel' = channelsCreated + 1
            /\ lastReturned' = channelsCreated + 1
       ELSE /\ lastReturned' = channel
            /\ UNCHANGED <<channel, channelsCreated>>
    /\ UNCHANGED <<everFailed, closedChannels, lastStatus, reports>>
    /\ UNCHANGED <<simvars, lifevars, framevars>>
    /\ UNCHANGED syncOthers

\* the subscribe callback: if (status === 'CLOSED' || status ===
\* 'CHANNEL_ERROR') channel = null.  cached: the module's channel; c: the
\* channel that reports
CachedAfterStatus(cached, c, st) ==
    IF st \in {"CLOSED", "CHANNEL_ERROR"} THEN 0 ELSE cached

\* channel c, created and not closed, reports a status.  A channel that
\* reported CHANNEL_ERROR or TIMED_OUT rejoins and reports again.
StatusReported(c, st) ==
    /\ c \in 1..channelsCreated
    /\ c \notin closedChannels
    /\ reports < MaxReports
    /\ reports' = reports + 1
    /\ lastStatus' = [chan |-> c, status |-> st]
    /\ channel' = CachedAfterStatus(channel, c, st)
    /\ everFailed' = [everFailed EXCEPT ![c] =
                         @ \/ st \in {"CLOSED", "CHANNEL_ERROR"}]
    /\ closedChannels' = IF st = "CLOSED" THEN closedChannels \cup {c}
                         ELSE closedChannels
    /\ UNCHANGED <<channelsCreated, lastReturned>>
    /\ UNCHANGED <<simvars, lifevars, framevars>>
    /\ UNCHANGED syncOthers

SyncInit ==
    /\ channel = 0
    /\ channelsCreated = 0
    /\ everFailed = [c \in Channels |-> FALSE]
    /\ closedChannels = {}
    /\ lastReturned = 0
    /\ lastStatus = NoStatus
    /\ reports = 0

(***************************************************************************)
(* WritingCanvas: the pointer and touch handlers of the canvas and what    *)
(* they broadcast.  getSyncChannel() gives a channel; every handler that   *)
(* broadcasts also calls onStrokeUpdate: (vx, vy, true) with STROKE_START  *)
(* and STROKE_MOVE, (0, 0, false) with STROKE_END.                         *)
(***************************************************************************)
\* channel.send({ type: 'broadcast', event, ... })
Send(log, event) == Append(log, event)

\* onPointerDown: handlePointerDown, startDrawing
HandlePointerDown ==
    /\ strokeEvents < MaxStrokeEvents
    /\ ~recentTouch
    /\ ~isProjection
    /\ broadcasts' = Send(broadcasts, "STROKE_START")
    /\ isDrawing' = TRUE
    /\ strokeEvents' = strokeEvents + 1
    /\ UNCHANGED <<isProjection, recentTouch>>
    /\ UNCHANGED <<simvars, lifevars, framevars>>
    /\ UNCHANGED strokeOthers

\* onPointerMove: handlePointerMove, draw
HandlePointerMove ==
    /\ strokeEvents < MaxStrokeEvents
    /\ ~recentTouch
    /\ isDrawing /\ ~isProjection
    /\ broadcasts' = Send(broadcasts, "STROKE_MOVE")
    /\ strokeEvents' = strokeEvents + 1
    /\ UNCHANGED <<isProjection, isDrawing, recentTouch>>
    /\ UNCHANGED <<simvars, lifevars, framevars>>
    /\ UNCHANGED strokeOthers

\* onPointerUp, onPointerLeave, onPointerCancel: handlePointerUp,
\* stopDrawing, which does not read isDrawing
HandlePointerUp ==
    /\ strokeEvents < MaxStrokeEvents
    /\ ~recentTouch
    /\ ~isProjection
    /\ broadcasts' = Send(broadcasts, "STROKE_END")
    /\ isDrawing' = FALSE
    /\ strokeEvents' = strokeEvents + 1
    /\ UNCHANGED <<isProjection, recentTouch>>
    /\ UNCHANGED <<simvars, lifevars, framevars>>
    /\ UNCHANGED strokeOthers

\* onTouchStart: handleTouchStart
HandleTouchStart ==
    /\ strokeEvents < MaxStrokeEvents
    /\ ~isProjection
    /\ recentTouch' = TRUE
    /\ broadcasts' = Send(broadcasts, "STROKE_START")
    /\ isDrawing' = TRUE
    /\ strokeEvents' = strokeEvents + 1
    /\ UNCHANGED isProjection
    /\ UNCHANGED <<simvars, lifevars, framevars>>
    /\ UNCHANGED strokeOthers

\* onTouchMove: handleTouchMove
HandleTouchMove ==
    /\ strokeEvents < MaxStrokeEvents
    /\ isDrawing /\ ~isProjection
    /\ recentTouch' = TRUE
    /\ broadcasts' = Send(broadcasts, "STROKE_MOVE")
    /\ strokeEvents' = strokeEvents + 1
    /\ UNCHANGED <<isProjection, isDrawing>>
    /\ UNCHANGED <<simvars, lifevars, framevars>>
    /\ UNCHANGED strokeOthers

\* onTouchEnd, onTouchCancel: handleTouchEnd, which does not read
\* isDrawing
HandleTouchEnd ==
    /\ strokeEvents < MaxStrokeEvents
    /\ ~isProjection
    /\ recentTouch' = TRUE
    /\ broadcasts' = Send(broadcasts, "STROKE_END")
    /\ isDrawing' = FALSE
    /\ strokeEvents' = strokeEvents + 1
    /\ UNCHANGED isProjection
    /\ UNCHANGED <<simvars, lifevars, framevars>>
    /\ UNCHANGED strokeOthers

\* 100 ms pass after the last touch event
TouchAges ==
    /\ recentTouch
    /\ recentTouch' = FALSE
    /\ UNCHANGED <<isProjection, isDrawing, broadcasts, strokeEvents>>
    /\ UNCHANGED <<simvars, lifevars, framevars>>
    /\ UNCHANGED strokeOthers

StrokeInit ==
    /\ isDrawing = FALSE
    /\ recentTouch = FALSE
    /\ broadcasts = <<>>
    /\ strokeEvents = 0

ComponentsInit ==
    /\ SnapshotInit /\ GetPoemsInit /\ ResizeInit /\ PoemInit /\ RevealInit
    /\ SyncInit /\ StrokeInit

AppInit == ComponentsInit /\ isProjection = FALSE

(***************************************************************************)
(* Specifications                                                          *)
(***************************************************************************)
Init ==
    /\ LifeInit /\ SimInit /\ FrameInit /\ AppInit
    /\ gpuCaps = FullCaps
    /\ useCamera = TRUE

EnableEffect == \E hasGL \in BOOLEAN, hasCamera \in BOOLEAN : Enable(hasGL, hasCamera)
CameraGranted == \E s \in Sessions : GetUserMediaResolve(s)
CameraDenied == \E s \in Sessions : GetUserMediaReject(s)
PlayStarted == \E s \in Sessions : PlayResolve(s)
PlayBlocked == \E s \in Sessions : PlayReject(s)
UserGesture == \E e \in EventTypes : Gesture(e)
RetryStarted == \E s \in Sessions : ForcePlayResolve(s)
RetryBlocked == \E s \in Sessions : ForcePlayReject(s)
Resized == \E v \in Viewports : WindowResize(v)
Frame == \E f \in frameRequests, down \in BOOLEAN, random \in BOOLEAN,
            decodable \in BOOLEAN : Render(f[1], f[2], down, random, decodable)

Next == \/ EnableEffect
        \/ Disable
        \/ CameraGranted
        \/ CameraDenied
        \/ PlayStarted
        \/ PlayBlocked
        \/ UserGesture
        \/ RetryStarted
        \/ RetryBlocked
        \/ Resized
        \/ Frame

Spec == Init /\ [][Next]_vars

\* the lifecycle on any WebGL implementation, with either useCamera
InitSetup ==
    /\ LifeInit /\ SimInit /\ FrameInit /\ AppInit
    /\ gpuCaps \in Caps
    /\ useCamera \in BOOLEAN

SpecSetup == InitSetup /\ [][Next]_vars

NextSim == AddDropCall \/ StepSimulation \/ UpdateNormals

SpecSim == Init /\ [][NextSim]_vars

PointerMoved == \E c \in ClientPoints(viewport) : StrokePoint(c[1], c[2])
FrameRendered == \E u \in RandomDraws : RenderFrame(u)

NextFrame == PointerMoved \/ StopDrawing \/ Resized \/ FrameRendered

SpecFrame == Init /\ [][NextFrame]_vars

SnapshotTaken ==
    \E readyState \in 0..4, bodyThrows \in BOOLEAN :
        TakeSnapshot(readyState, bodyThrows)

\* the camera's life without frames, with getSnapshot() called at any time
NextSnapshot == \/ EnableEffect
                \/ Disable
                \/ CameraGranted
                \/ CameraDenied
                \/ PlayStarted
                \/ PlayBlocked
                \/ SnapshotTaken

SpecSnapshot == Init /\ [][NextSnapshot]_vars

GetPoemsServed == \E q \in LimitQueries : GetPoems(q)

NextGetPoems == GetPoemsServed

SpecGetPoems == Init /\ [][NextGetPoems]_vars

TimeAdvances == \E d \in TimeSteps : TimePasses(d)

NextResize == WindowResizeEvent \/ DebounceTimerFires \/ TimeAdvances

SpecResize == Init /\ [][NextResize]_vars

PoemGenerated == \E configured \in BOOLEAN : GenerateResolve(configured)
PoemSaved == \E p \in pendingSaves : SaveResolve(p)
PoemNotSaved == \E p \in pendingSaves : SaveReject(p)
HistoryPoemSelected == \E h \in recentPoems : HandleSelectHistoryPoem(h)

NextApp == \/ SubmitCanvas
           \/ PoemGenerated
           \/ GenerateReject
           \/ PoemSaved
           \/ PoemNotSaved
           \/ HandleNewPoem
           \/ HistoryPoemSelected

SpecApp == Init /\ [][NextApp]_vars

PoemPropChanges == \E p \in DisplayPoems : PoemChanges(p)
AnimationStarts == \E t \in timers : StartTimerFires(t)
WordShown == \E t \in timers : ShowNextWord(t)
RevealCompletes == \E t \in timers : CompleteTimerFires(t)

NextReveal == PoemPropChanges \/ AnimationStarts \/ WordShown \/ RevealCompletes

SpecReveal == Init /\ [][NextReveal]_vars

SyncChannelRequested == \E configured \in BOOLEAN : GetSyncChannel(configured)
ChannelStatusReported ==
    \E c \in Channels, st \in ChannelStatuses : StatusReported(c, st)

NextSync == SyncChannelRequested \/ ChannelStatusReported

SpecSync == Init /\ [][NextSync]_vars

\* the controller canvas, or a canvas in projection mode
InitStroke ==
    /\ LifeInit /\ SimInit /\ FrameInit /\ ComponentsInit
    /\ gpuCaps = FullCaps
    /\ useCamera = TRUE
    /\ isProjection \in BOOLEAN

NextStroke == \/ HandlePointerDown
              \/ HandlePointerMove
              \/ HandlePointerUp
              \/ HandleTouchStart
              \/ HandleTouchMove
              \/ HandleTouchEnd
              \/ TouchAges

SpecStroke == InitStroke /\ [][NextStroke]_vars

(***************************************************************************)
(* Claims about the effect's lifecycle (checked under Spec)                *)
(***************************************************************************)
\* the pending frame callbacks of session s
RequestsOf(s) == {f \in frameRequests : f[1] = s}

\* C3: once a session is torn down its camera tracks are stopped and its
\* <video> is out of the DOM, whenever getUserMedia and video.play() settle
\* relative to the cleanup: no disposed session holds a live stream.
C3_CameraReleased ==
    \A s \in Sessions :
        status[s] = "disposed" => (stream[s] # "live" /\ ~videoInDom[s])

\* C4: while a session runs, its raf is the id of its one pending frame
\* request; once its cleanup has run it has no pending request and render()
\* never runs for it again (its frame record, buffers and raf stay as they
\* were).
C4_FrameCancelled ==
    /\ [](\A s \in Sessions :
             /\ status[s] = "running" => RequestsOf(s) = {<<s, raf[s]>>}
             /\ status[s] # "running" => RequestsOf(s) = {})
    /\ [][\A s \in Sessions :
             status[s] = "disposed" =>
                 /\ lastFrame' # lastFrame => lastFrame'.session # s
                 /\ simTex'[s] = simTex[s]
                 /\ raf'[s] = raf[s]]_vars

C4_Witness ==
    \E s \in Sessions :
        /\ status[s] = "disposed"
        /\ lastFrame.session = s
        /\ RequestsOf(s) = {}
        /\ \E s2 \in Sessions : status[s2] = "running" /\ RequestsOf(s2) # {}

\* C5: once a session is disposed none of the GPU objects it created (the
\* two simulation textures, the framebuffer, the vertex buffers, the video
\* texture, the programs) is still allocated.
C5_GpuReleased ==
    \A s \in Sessions : status[s] = "disposed" => gpu[s] = {}

\* C6: once a session is disposed none of its listeners is registered: not
\* its resize on window, not its forcePlay on document click / touchstart.
C6_ListenersRemoved ==
    \A s \in Sessions :
        status[s] = "disposed" =>
            /\ s \notin resizeListeners
            /\ \A e \in EventTypes : <<s, e>> \notin docListeners

(***************************************************************************)
(* Claims about the frame (checked under SpecFrame)                        *)
(***************************************************************************)
\* C11: in every frame the solver calls are the addDrop calls, then the one
\* stepSimulation, then updateNormals, and the buffer the compositor samples
\* holds the heights that frame's step produced together with the normals
\* computed from exactly those heights.
C11_NormalsFresh ==
    frames > 0 =>
        LET c == rendered.calls
            n == Len(c)
        IN  /\ n >= 2
            /\ c[n].op = "updateNormals"
            /\ c[n - 1].op = "stepSimulation"
            /\ \A i \in 1 .. n - 2 : c[i].op = "addDrop"
            /\ rendered.water = textureA
            /\ \A t \in Texels :
                   /\ pixels[textureA][t].r = pixels[textureB][t].r
                   /\ pixels[textureA][t].b = NormalShader(pixels[textureA], t).b
                   /\ pixels[textureA][t].a = NormalShader(pixels[textureA], t).a

C11_Witness ==
    /\ frames > 1
    /\ \E i \in 1 .. Len(rendered.calls) : rendered.calls[i].op = "addDrop"
    /\ \E t \in Texels : pixels[textureA][t].b[1] # 0

\* the positions in the last frame's calls of the drops made for the pointer
PointerDrops == {i \in 1 .. Len(rendered.calls) : rendered.calls[i].by = "pointer"}

C13_PointerMapping ==
    ( /\ frames > 0
      /\ PointerDrops # {}
      /\ lastEvent.kind = "stroke"
      /\ rendered.pointer = pointer
      /\ rendered.canvas = BackingSize([w |-> lastEvent.inner[1],
                                        h |-> lastEvent.inner[2],
                                        dpr |-> lastEvent.dpr]) )
    => \A i \in PointerDrops :
           rendered.calls[i].center =
               << RSub(RMul(RDiv(RMul(lastEvent.clientX, lastEvent.dpr),
                                 Rat(rendered.canvas[1], 1)), Rat(2, 1)), One),
                  RSub(RMul(RDiv(RMul(lastEvent.clientY, lastEvent.dpr),
                                 Rat(rendered.canvas[2], 1)), Rat(2, 1)), One) >>

(***************************************************************************)
(* Claims about camera, resize and setup (checked under Spec)              *)
(***************************************************************************)
\* C14: a frame that found the camera not ready (videoReady false or
\* video.readyState < 2) sets uVideoReady = 0 and its compositor does not
\* sample the camera texture; the camera texture is sampled only by a frame
\* that uploaded a video frame itself.
C14_NoCameraSampleUnlessReady ==
    lastFrame.session # 0 =>
        /\ (~lastFrame.videoReady \/ ~lastFrame.decodable) =>
               (lastFrame.uVideoReady = 0 /\ ~lastFrame.videoSampled)
        /\ lastFrame.videoSampled => lastFrame.uploaded

C14_Witness ==
    /\ lastFrame.session # 0
    /\ lastFrame.videoReady
    /\ ~lastFrame.decodable
    /\ lastFrame.uVideoReady = 0

\* C15: a session calls getUserMedia at most once; once the request was
\* rejected or the camera API was found absent, the session's camera state
\* and request count never change again and its videoReady stays false; a
\* frame callback never makes a request.
C15_CameraRequestedOnce ==
    /\ [](\A s \in Sessions :
             /\ requested[s] <= 1
             /\ camera[s] \in {"failed", "noApi"} => ~videoReady[s])
    /\ [][/\ \A s \in Sessions :
                camera[s] \in {"failed", "noApi"} =>
                    /\ camera'[s] = camera[s]
                    /\ requested'[s] = requested[s]
                    /\ ~videoReady'[s]
          /\ (nextFrameId' # nextFrameId /\ sessions' = sessions) =>
                requested' = requested]_vars

C15_Witness ==
    \E s \in Sessions :
        /\ camera[s] = "failed"
        /\ requested[s] = 1
        /\ status[s] = "running"
        /\ lastFrame.session = s
        /\ \E s2 \in Sessions : camera[s2] = "noApi" /\ requested[s2] = 0

\* C16: the gesture listeners registered after a blocked play() are
\* one-shot: when the play() of a retry settles, by success or by failure,
\* no forcePlay listener of that session is left on document, so playback
\* is retried once and never again.
C16_RetryOnce ==
    [][\A s \in Sessions :
          forcePlays'[s] < forcePlays[s] =>
              \A e \in EventTypes : <<s, e>> \notin docListeners']_vars

\* a retry failed and its listeners are still registered: the next gesture
\* retries again
C16_Witness ==
    \E s \in Sessions :
        /\ camera[s] = "blocked"
        /\ ~videoReady[s]
        /\ forcePlays[s] > 0
        /\ \A e \in EventTypes : <<s, e>> \in docListeners

\* the cap on devicePixelRatio of the earlier resize(): Math.min(dpr, 1.5)
DprCap == Rat(3, 2)

\* C17: the canvas of a session whose resize listener is registered has the
\* backing size floor(min(devicePixelRatio, cap) * viewport size), also for
\* a devicePixelRatio above the cap.
C17_BackingSizeCapped ==
    \A s \in resizeListeners :
        LET ratio == IF RLeq(viewport.dpr, DprCap) THEN viewport.dpr ELSE DprCap
        IN  canvasSize[s] = <<FloorScaled(viewport.w, ratio),
                              FloorScaled(viewport.h, ratio)>>

\* what resize() does: the canvas follows the uncapped devicePixelRatio
C17_Witness ==
    /\ RLess(DprCap, viewport.dpr)
    /\ \E s \in resizeListeners :
           canvasSize[s] = <<FloorScaled(viewport.w, viewport.dpr),
                             FloorScaled(viewport.h, viewport.dpr)>>

\* C18: a session's solver is 256x256 from the moment the session starts;
\* no resize, frame or other step changes its width or height, and every
\* frame runs its solver passes over 256x256 whatever the canvas size is.
C18_SimResolutionFixed ==
    /\ [](\A s \in Sessions :
              /\ simSize[s] \in {<<0, 0>>, <<256, 256>>}
              /\ status[s] \in {"running", "disposed"}
                     => simSize[s] = <<256, 256>>)
    /\ [](lastFrame.session # 0 => lastFrame.simViewport = <<256, 256>>)
    /\ [][\A s \in Sessions :
              simSize[s] # <<0, 0>> => simSize'[s] = simSize[s]]_vars

\* a frame drawn after a resize changed the canvas to 6x8
C18_Witness ==
    \E s \in Sessions :
        /\ lastFrame.session = s
        /\ s \in resizeListeners
        /\ canvasSize[s] = <<6, 8>>
        /\ simSize[s] = <<256, 256>>
        /\ lastFrame.simViewport = <<256, 256>>

(***************************************************************************)
(* Claims about setup failures (checked under SpecSetup)                   *)
(***************************************************************************)
\* C19: where float textures are unsupported the effect is disabled as a
\* whole: no session runs, no frame is requested or drawn and the camera
\* is never requested.
C19_NoFloatDisablesEffect ==
    ~gpuCaps.float =>
        \A s \in Sessions :
            /\ status[s] # "running"
            /\ RequestsOf(s) = {}
            /\ lastFrame.session # s
            /\ requested[s] = 0

\* what the effect does there: a frame drawn and the camera requested
C19_Witness ==
    /\ ~gpuCaps.float
    /\ \E s \in Sessions :
           /\ status[s] = "running"
           /\ lastFrame.session = s
           /\ requested[s] = 1

\* C20: where a shader fails to compile or a program fails to link, the
\* compiler diagnostic is logged, no frame is ever requested and no frame
\* is drawn.
C20_ShaderFailureFatal ==
    gpuCaps.shaders # "ok" =>
        \A s \in Sessions :
            /\ status[s] \in {"running", "disposed"}
                   => "shaderInfoLog" \in logged[s]
            /\ RequestsOf(s) = {}
            /\ lastFrame.session # s

\* a frame drawn although the program did not link and nothing was logged
C20_Witness ==
    /\ gpuCaps.shaders = "linkFails"
    /\ \E s \in Sessions :
           /\ lastFrame.session = s
           /\ logged[s] = {}

(***************************************************************************)
(* Claims about a missing context and the camera (checked under Spec)      *)
(***************************************************************************)
\* C21: a session that got no WebGL context holds nothing: no GPU
\* resource, no video element, no camera request or stream, no listener,
\* no pending frame and no frame drawn; the effect returned normally (its
\* status is "noContext") and the component can be disabled and enabled
\* again.
C21_NoContextNothingHeld ==
    \A s \in Sessions :
        status[s] = "noContext" =>
            /\ gpu[s] = {}
            /\ ~videoInDom[s]
            /\ requested[s] = 0
            /\ camera[s] = "idle"
            /\ stream[s] = "null"
            /\ s \notin resizeListeners
            /\ \A e \in {"click", "touchstart"} : <<s, e>> \notin docListeners
            /\ RequestsOf(s) = {}
            /\ raf[s] = 0
            /\ lastFrame.session # s
            /\ simSize[s] = <<0, 0>>
            /\ logged[s] = {"WebGL not supported"}

\* a session without a context, disabled again, followed by one that runs
C21_Witness ==
    /\ status[1] = "noContext"
    /\ status[2] = "running"
    /\ lastFrame.session = 2

\* C22 (under SpecSnapshot): getSnapshot() returns null when there is no
\* video element or its readyState is below 2; it returns null or a data
\* URL in every case, also when the body of its try block throws.
C22_SnapshotNullUnlessDecodable ==
    snapshot # NoSnapshot =>
        /\ snapshot.result \in {"null", "dataURL"}
        /\ (snapshot.ref = 0 \/ snapshot.readyState < 2)
               => snapshot.result = "null"

\* a video element exists, has metadata only, and getSnapshot() gave null
C22_Witness ==
    /\ snapshot.ref # 0
    /\ snapshot.readyState = 1
    /\ snapshot.result = "null"

\* C23 (under SpecSetup): with useCamera false getUserMedia is never
\* called, however many frames the effect renders.
C23_NoCameraWithoutUseCamera ==
    ~useCamera => \A s \in Sessions : requested[s] = 0

\* the effect renders frames with useCamera false and the camera requested
C23_Witness ==
    /\ ~useCamera
    /\ \E s \in Sessions :
           /\ requested[s] = 1
           /\ lastFrame.session = s

(***************************************************************************)
(* Claims about the get-poems API (checked under SpecGetPoems)             *)
(***************************************************************************)
\* C24: whatever the limit parameter of a request is, the limit given to
\* the query is an integer from 1 to 100, and 50 when the parameter is
\* absent.
C24_LimitBetween1And100 ==
    limit # NoLimit =>
        /\ ~limit.nan
        /\ limit.n \in 1..100
        /\ ~limitQuery.present => limit.n = 50

\* a non-numeric parameter makes the limit NaN
C24_Witness ==
    /\ limitQuery = [present |-> TRUE, value |-> <<"a">>]
    /\ limit = NaN

(***************************************************************************)
(* Claims about window resize (checked under SpecResize)                   *)
(***************************************************************************)
\* runs of one canvas's recomputation are debounced: none while the last
\* resize event is less than 250 ms old, one afterwards, not earlier than
\* 250 ms after that event
DebouncedRuns(runs) ==
    /\ now - burst.last < DebounceWait => runs.count = 0
    /\ now - burst.last = DebounceWait => runs.count <= 1
    /\ now - burst.last > DebounceWait => runs.count = 1
    /\ runs.count > 0 => runs.at >= burst.last + DebounceWait

\* C25: for a burst of resize events the backing resolution is recomputed
\* exactly once, 250 ms after the last event, for the render canvas and for
\* the drawing canvas.
C25_ResizeDebounced ==
    burst.len > 0 => DebouncedRuns(renderRuns) /\ DebouncedRuns(drawRuns)

\* three events 50 ms apart: the render canvas was resized three times
\* before the drawing canvas was resized once
C25_Witness ==
    /\ burst.len = 3
    /\ renderRuns.count = 3
    /\ drawRuns = [count |-> 1, at |-> burst.last + DebounceWait]

(***************************************************************************)
(* Claims about App (checked under SpecApp)                                *)
(***************************************************************************)
\* C26: a poemId that is not null is the database id of the poem on
\* display, whenever the background save of a submission completes.
C26_PoemIdOfDisplayedPoem ==
    poemId # 0 => poemId = poem

\* the second submission's poem on display under the first one's id
C26_Witness ==
    /\ appState = "poem"
    /\ poem = SubmittedPoem(2)
    /\ poemId = SubmittedPoem(1)

(***************************************************************************)
(* Claims about PoemDisplay (checked under SpecReveal)                     *)
(***************************************************************************)
\* C27: visibleWords never exceeds the totalWords of the poem on display,
\* and isAllComplete is true only when all its words are visible, also
\* when the poem changes while timers of the previous poem are pending.
C27_RevealWithinPoem ==
    /\ visibleWords <= TotalWords(shownPoem)
    /\ isAllComplete => visibleWords = TotalWords(shownPoem)

\* the reveal of the second poem declared complete by a timer of the
\* first, before all its words are shown
C27_Witness ==
    /\ poemChanges = 2
    /\ isAllComplete
    /\ visibleWords < TotalWords(shownPoem)
    /\ \A t \in timers : t.chain = 2

(***************************************************************************)
(* Claims about the sync channel (checked under SpecSync)                  *)
(***************************************************************************)
\* C28: a channel is dropped from the cache only after it reported CLOSED
\* or CHANNEL_ERROR itself, so every channel created and not cached has
\* failed and at most one channel is live; a status reported by a channel
\* that is not the cached one leaves the cache alone.
C28_OneLiveChannel ==
    /\ [](\A c \in 1..channelsCreated : c # channel => everFailed[c])
    /\ [][(reports' # reports /\ channel # 0 /\ lastStatus'.chan # channel)
              => channel' = channel]_vars

\* three channels made, the second dropped without having failed
C28_Witness ==
    /\ channelsCreated = 3
    /\ channel = 3
    /\ ~everFailed[2]

(***************************************************************************)
(* Claims about the stroke events (checked under SpecStroke)               *)
(***************************************************************************)
\* a STROKE_START precedes the i-th broadcast with no STROKE_END between
OpenBefore(i) ==
    \E j \in 1..(i - 1) :
        /\ broadcasts[j] = "STROKE_START"
        /\ \A k \in (j + 1)..(i - 1) : broadcasts[k] # "STROKE_END"

\* C29: a STROKE_MOVE or STROKE_END is broadcast (and with the latter
\* onStrokeUpdate(0, 0, false) called) only while a stroke opened by a
\* STROKE_START is open, for every order of pointer and touch events; a
\* canvas in projection mode broadcasts nothing.
C29_StrokeEventsWellFormed ==
    /\ \A i \in 1..Len(broadcasts) :
           broadcasts[i] \in {"STROKE_MOVE", "STROKE_END"} => OpenBefore(i)
    /\ isProjection => broadcasts = <<>>

\* pointerup followed by pointerleave: the stroke is ended twice
C29_Witness ==
    /\ ~isProjection
    /\ broadcasts = <<"STROKE_START", "STROKE_END", "STROKE_END">>

(***************************************************************************)
(* Claims about the channels of a pass (checked under SpecSim)             *)
(***************************************************************************)
\* C30: comparing the buffer a pass wrote (now textureA) with the buffer
\* it read (now textureB), texel by texel: updateNormals keeps height (r)
\* and momentum (g), addDrop keeps momentum and both normal channels (b,
\* a), stepSimulation keeps both normal channels.
C30_PassKeepsOtherChannels ==
    \A t \in Texels :
        LET old == pixels[textureB][t]
            new == pixels[textureA][t]
        IN  /\ lastCall.op = "updateNormals" => (new.r = old.r /\ new.g = old.g)
            /\ lastCall.op = "addDrop" =>
                   (new.g = old.g /\ new.b = old.b /\ new.a = old.a)
            /\ lastCall.op = "stepSimulation" => (new.b = old.b /\ new.a = old.a)

\* updateNormals changed a normal of a texel whose height and momentum
\* are not zero
C30_Witness ==
    /\ lastCall.op = "updateNormals"
    /\ \E t \in Texels :
           /\ pixels[textureA][t].r # Zero
           /\ pixels[textureA][t].g # Zero
           /\ pixels[textureA][t].b # pixels[textureB][t].b

=============================================================================
